---- MODULE Spec2Model ----
(***************************************************************************)
(* A model of the reverse-mode autograd engine of src/src/autograd.rs, of  *)
(* the network composition of src/src/mlp.rs and of the training loop of   *)
(* src/src/main.rs.                                                        *)
(*                                                                         *)
(* Nodes live in an arena: a handle (Rc<RefCell<AutogradData>>) is the     *)
(* index of its node in the sequence `nodes`, so that handle identity      *)
(* (Rc::as_ptr) is integer equality and cloning a handle copies an index.  *)
(*                                                                         *)
(* Numbers. An f64 is modelled as a fixed-point number: the integer x      *)
(* stands for x / Unit. Sums are exact; a product is rounded to the        *)
(* nearest grid point (QMul), as an f64 product is rounded to the nearest  *)
(* f64. On whole numbers (multiples of Unit) every product is exact, and   *)
(* the model agrees with f64 arithmetic.                                   *)
(***************************************************************************)
EXTENDS Integers, Sequences, FiniteSets, TLC

\* learning_rate = 0.01 = 1 / LrDen (src/src/main.rs:18)
LrDen == 100
\* the fixed-point grid: the resolution of the learning rate
Unit == LrDen

\* the most nodes the engine specifications allocate
MaxNodes == 3
\* the most backward() calls of one run of the engine specifications
MaxBackward == 2

(***************************************************************************)
(* Array2<f64>: rows, cols and the elements in row-major order.            *)
(***************************************************************************)
Tensor(r, c, F(_, _)) ==
  [rows |-> r, cols |-> c,
   data |-> [k \in 1..(r * c) |-> F(((k - 1) \div c) + 1, ((k - 1) % c) + 1)]]

At(t, i, j) == t.data[(i - 1) * t.cols + j]

Shape(t) == <<t.rows, t.cols>>

\* Array2::zeros((r, c))
Zeros(r, c) == Tensor(r, c, LAMBDA i, j : 0)

\* Array2::from_elem((r, c), v)
FromElem(r, c, v) == Tensor(r, c, LAMBDA i, j : v)

Abs(x) == IF x < 0 THEN -x ELSE x

\* the f64 product x * y, rounded to the nearest grid point
QMul(x, y) ==
  LET p == x * y
      q == (2 * Abs(p) + Unit) \div (2 * Unit)
  IN IF p < 0 THEN -q ELSE q

\* ndarray broadcasting of two shapes against each other: each axis must agree
\* or be 1 on one side
CoBroadcastable(a, b) ==
  /\ (a.rows = b.rows \/ a.rows = 1 \/ b.rows = 1)
  /\ (a.cols = b.cols \/ a.cols = 1 \/ b.cols = 1)

Max(x, y) == IF x >= y THEN x ELSE y

\* the element (i, j) of t broadcast to a larger shape
BAt(t, i, j) == At(t, IF t.rows = 1 THEN 1 ELSE i, IF t.cols = 1 THEN 1 ELSE j)

\* &a + &b on arrays (ndarray broadcasts the operands against each other)
TAdd(a, b) ==
  Tensor(Max(a.rows, b.rows), Max(a.cols, b.cols),
         LAMBDA i, j : BAt(a, i, j) + BAt(b, i, j))

\* &a * &b on arrays: the elementwise product, broadcast like +
TMul(a, b) ==
  Tensor(Max(a.rows, b.rows), Max(a.cols, b.cols),
         LAMBDA i, j : QMul(BAt(a, i, j), BAt(b, i, j)))

\* self += &rhs: rhs is broadcast to the shape of self, or the call panics
CanAddAssign(self, rhs) ==
  /\ (rhs.rows = self.rows \/ rhs.rows = 1)
  /\ (rhs.cols = self.cols \/ rhs.cols = 1)

AddAssign(self, rhs) ==
  Tensor(self.rows, self.cols, LAMBDA i, j : At(self, i, j) + BAt(rhs, i, j))

\* a.t()
Transpose(a) == Tensor(a.cols, a.rows, LAMBDA i, j : At(a, j, i))

RECURSIVE DotSum(_, _, _, _, _)
DotSum(a, b, i, j, k) ==
  IF k = 0 THEN 0 ELSE DotSum(a, b, i, j, k - 1) + QMul(At(a, i, k), At(b, k, j))

\* a.dot(&b): defined when a.cols = b.rows, a panic otherwise
CanDot(a, b) == a.cols = b.rows

Dot(a, b) == Tensor(a.rows, b.cols, LAMBDA i, j : DotSum(a, b, i, j, a.cols))

\* mapv
Mapv(t, F(_)) == Tensor(t.rows, t.cols, LAMBDA i, j : F(At(t, i, j)))

\* unary minus on an array
Neg(t) == Mapv(t, LAMBDA x : -x)

IsZero(t) == \A k \in 1..(t.rows * t.cols) : t.data[k] = 0


(***************************************************************************)
(* AutogradData and the graph-building operations of Autograd.             *)
(***************************************************************************)
VARIABLES
  nodes,    \* the arena: nodes[h] is the AutogradData behind handle h
  status,   \* "running", or "panicked" once an operation has panicked
  bw,       \* the backward() call in progress, or the last one that returned
  nbw,      \* the number of backward() calls so far
  lastOp,   \* the last operation called and its arguments
  train     \* the locals of main's training loop

vars == <<nodes, status, bw, nbw, lastOp, train>>

Handles == 1..Len(nodes)

\* Autograd::new, had it swapped the two axes of the grad's shape
AutogradNewSwapped(value) ==
  [value |-> value, grad |-> Zeros(value.cols, value.rows),
   children |-> <<>>, op |-> "None", backward |-> FALSE]

\* Autograd::new: zero grad of the value's shape, no children, Op::None, no
\* backward function
AutogradNew(value) ==
  [value |-> value, grad |-> Zeros(value.rows, value.cols),
   children |-> <<>>, op |-> "None", backward |-> FALSE]

\* a derived node: Autograd::new(value), then the children are pushed, op is set
\* and backward becomes Some
Derived(value, children, op) ==
  [AutogradNew(value) EXCEPT !.children = children, !.op = op, !.backward = TRUE]

AddNode(ns, a, b) == Derived(TAdd(ns[a].value, ns[b].value), <<a, b>>, "Add")

MulNode(ns, a, b) == Derived(Dot(ns[a].value, ns[b].value), <<a, b>>, "Mul")

\* f64::tanh is 0 at 0 and rounds to +-1.0 from |x| >= TanhSat on; in between
\* its value is no whole number
TanhSat == 22

TanhExact(x) == x = 0 \/ Abs(x) >= TanhSat * Unit

TanhElem(x) == IF x = 0 THEN 0 ELSE IF x > 0 THEN Unit ELSE -Unit

TanhNode(ns, a) == Derived(Mapv(ns[a].value, TanhElem), <<a>>, "Tanh")

ReluElem(x) == Max(x, 0)

ReluNode(ns, a) == Derived(Mapv(ns[a].value, ReluElem), <<a>>, "ReLU")

(***************************************************************************)
(* build_topo: depth-first post-order with a visited set of node pointers. *)
(***************************************************************************)
RECURSIVE build_topo(_, _, _)
RECURSIVE build_topo_children(_, _, _, _)

\* build_topo, had it keyed the visited set by the nodes' data, not their pointers
build_topo_by_value(ns, n, acc) ==
  IF \E m \in acc.visited : ns[m] = ns[n] THEN acc
  ELSE LET marked == [acc EXCEPT !.visited = @ \cup {n}]
           after == build_topo_children(ns, ns[n].children, 1, marked)
       IN [after EXCEPT !.topo = Append(@, n)]

build_topo(ns, n, acc) ==
  IF n \in acc.visited THEN acc
  ELSE LET marked == [acc EXCEPT !.visited = @ \cup {n}]
           after == build_topo_children(ns, ns[n].children, 1, marked)
       IN [after EXCEPT !.topo = Append(@, n)]

build_topo_children(ns, children, k, acc) ==
  IF k > Len(children) THEN acc
  ELSE build_topo_children(ns, children, k + 1, build_topo(ns, children[k], acc))

BuildTopo(ns, root) == build_topo(ns, root, [topo |-> <<>>, visited |-> {}]).topo

(***************************************************************************)
(* One iteration of backward's loop: the gradient rule of node n.          *)
(* The result is the arena after it and whether it returned (ok) or        *)
(* panicked part-way.                                                      *)
(***************************************************************************)
\* the accumulation, had it been an assignment (grad = g)
GradAssign(r, c, g) ==
  IF ~r.ok THEN r
  ELSE IF ~CanAddAssign(r.nodes[c].grad, g) THEN [r EXCEPT !.ok = FALSE]
  ELSE [r EXCEPT !.nodes[c].grad = AddAssign(Zeros(@.rows, @.cols), g)]

\* children[c].data.borrow_mut().grad += &g, after the steps before it
GradAddAssign(r, c, g) ==
  IF ~r.ok THEN r
  ELSE IF ~CanAddAssign(r.nodes[c].grad, g) THEN [r EXCEPT !.ok = FALSE]
  ELSE [r EXCEPT !.nodes[c].grad = AddAssign(@, g)]

\* the Add rule, had it left out the second operand
DispatchAddFirstOnly(ns, grad, children) ==
  GradAddAssign([nodes |-> ns, ok |-> TRUE], children[1], grad)

DispatchAdd(ns, grad, children) ==
  GradAddAssign(GradAddAssign([nodes |-> ns, ok |-> TRUE], children[1], grad),
                children[2], grad)

\* the MatMul rule, had it given each operand the other one's contribution
DispatchMulSwapped(ns, grad, children) ==
  LET v0 == ns[children[1]].value
      v1 == ns[children[2]].value
      start == [nodes |-> ns, ok |-> TRUE]
      first == IF CanDot(Transpose(v0), grad)
               THEN GradAddAssign(start, children[1], Dot(Transpose(v0), grad))
               ELSE [start EXCEPT !.ok = FALSE]
  IN IF ~first.ok THEN first
     ELSE IF CanDot(grad, Transpose(v1))
          THEN GradAddAssign(first, children[2], Dot(grad, Transpose(v1)))
          ELSE [first EXCEPT !.ok = FALSE]

DispatchMul(ns, grad, children) ==
  LET v0 == ns[children[1]].value
      v1 == ns[children[2]].value
      start == [nodes |-> ns, ok |-> TRUE]
      first == IF CanDot(grad, Transpose(v1))
               THEN GradAddAssign(start, children[1], Dot(grad, Transpose(v1)))
               ELSE [start EXCEPT !.ok = FALSE]
  IN IF ~first.ok THEN first
     ELSE IF CanDot(Transpose(v0), grad)
          THEN GradAddAssign(first, children[2], Dot(Transpose(v0), grad))
          ELSE [first EXCEPT !.ok = FALSE]

DispatchTanh(ns, value, grad, children) ==
  LET local_deriv == Mapv(value, LAMBDA x : Unit - QMul(x, x))
      start == [nodes |-> ns, ok |-> TRUE]
  IN IF CoBroadcastable(local_deriv, grad)
     THEN GradAddAssign(start, children[1], TMul(local_deriv, grad))
     ELSE [start EXCEPT !.ok = FALSE]

\* the ReLU rule, had it let the gradient through where the output is 0
DispatchReLUAtZero(ns, value, grad, children) ==
  LET ones == Mapv(value, LAMBDA x : IF x >= 0 THEN Unit ELSE 0)
      start == [nodes |-> ns, ok |-> TRUE]
  IN IF CoBroadcastable(grad, ones)
     THEN GradAddAssign(start, children[1], TMul(grad, ones))
     ELSE [start EXCEPT !.ok = FALSE]

DispatchReLU(ns, value, grad, children) ==
  LET ones == Mapv(value, LAMBDA x : IF x > 0 THEN Unit ELSE 0)
      start == [nodes |-> ns, ok |-> TRUE]
  IN IF CoBroadcastable(grad, ones)
     THEN GradAddAssign(start, children[1], TMul(grad, ones))
     ELSE [start EXCEPT !.ok = FALSE]

Dispatch(ns, n) ==
  LET data == ns[n]
  IN IF ~data.backward THEN [nodes |-> ns, ok |-> TRUE]
     ELSE CASE data.op = "Add" -> DispatchAdd(ns, data.grad, data.children)
            [] data.op = "Mul" -> DispatchMul(ns, data.grad, data.children)
            [] data.op = "Tanh" -> DispatchTanh(ns, data.value, data.grad, data.children)
            [] data.op = "ReLU" -> DispatchReLU(ns, data.value, data.grad, data.children)
            [] OTHER -> [nodes |-> ns, ok |-> TRUE]

\* backward's loop, had it run over topo.iter() without rev()
IterFwd(topo) == topo

\* topo.iter().rev(): the order in which backward's loop visits the nodes
IterRev(topo) == [k \in 1..Len(topo) |-> topo[Len(topo) + 1 - k]]

(***************************************************************************)
(* The operations of Autograd as actions. A panic ends the program: no     *)
(* action is enabled once status is "panicked". backward() runs as one     *)
(* call (Backward) followed by one step per iteration of its loop          *)
(* (BackwardStep); the program is single-threaded, so no other operation   *)
(* runs until the loop has ended.                                          *)
(***************************************************************************)
\* the largest magnitude, in whole units, a constructed value may have
MaxAbs == 400

Bounded(t) == \A k \in 1..(t.rows * t.cols) : Abs(t.data[k]) <= MaxAbs * Unit

NoCall == [name |-> "none", a |-> 0, b |-> 0]

\* bw: active while the loop of backward() runs; root, topo and done (the number
\* of nodes dispatched) are the call's locals; entry is the arena as it was when
\* the present run of consecutive backward() calls on root began, and run the
\* number of calls in it
BwIdle ==
  [active |-> FALSE, root |-> 0, topo |-> <<>>, done |-> 0, entry |-> <<>>, run |-> 0]

TrainIdle == [pc |-> "off"]

Ready == status = "running" /\ ~bw.active

Call(name, a, b) ==
  /\ lastOp' = [name |-> name, a |-> a, b |-> b]
  /\ bw' = BwIdle
  /\ UNCHANGED <<nbw, train>>

New(value) ==
  /\ Ready
  /\ nodes' = Append(nodes, AutogradNew(value))
  /\ status' = status
  /\ Call("new", Len(nodes) + 1, 0)

Add(a, b) ==
  /\ Ready
  /\ IF CoBroadcastable(nodes[a].value, nodes[b].value)
     THEN /\ Bounded(AddNode(nodes, a, b).value)
          /\ nodes' = Append(nodes, AddNode(nodes, a, b))
          /\ status' = status
     ELSE /\ nodes' = nodes
          /\ status' = "panicked"
  /\ Call("add", a, b)

Mul(a, b) ==
  /\ Ready
  /\ IF CanDot(nodes[a].value, nodes[b].value)
     THEN /\ Bounded(MulNode(nodes, a, b).value)
          /\ nodes' = Append(nodes, MulNode(nodes, a, b))
          /\ status' = status
     ELSE /\ nodes' = nodes
          /\ status' = "panicked"
  /\ Call("mul", a, b)

Tanh(a) ==
  /\ Ready
  /\ \A k \in 1..Len(nodes[a].value.data) : TanhExact(nodes[a].value.data[k])
  /\ nodes' = Append(nodes, TanhNode(nodes, a))
  /\ status' = status
  /\ Call("tanh", a, 0)

Relu(a) ==
  /\ Ready
  /\ nodes' = Append(nodes, ReluNode(nodes, a))
  /\ status' = status
  /\ Call("relu", a, 0)

\* zero_grad, had it reset the whole node through Autograd::new
ZeroGradNodeAll(data) == [AutogradNew(data.value) EXCEPT !.children = data.children]

ZeroGradNode(data) == [data EXCEPT !.grad = Zeros(data.value.rows, data.value.cols)]

ZeroGrad(n) ==
  /\ Ready
  /\ nodes' = [nodes EXCEPT ![n] = ZeroGradNode(@)]
  /\ status' = status
  /\ Call("zero_grad", n, 0)

SetValue(n, value) ==
  /\ Ready
  /\ nodes' = [nodes EXCEPT ![n].value = value]
  /\ status' = status
  /\ Call("set_value", n, 0)

SetGrad(n, grad) ==
  /\ Ready
  /\ nodes' = [nodes EXCEPT ![n].grad = grad]
  /\ status' = status
  /\ Call("set_grad", n, 0)

\* backward() has returned
Returned ==
  /\ lastOp.name = "backward"
  /\ status = "running"
  /\ ~bw.active

\* backward(), up to its loop: the topological order is built
BackwardCall(root) ==
  LET again == Returned /\ bw.root = root
  IN [active |-> TRUE, root |-> root, topo |-> BuildTopo(nodes, root), done |-> 0,
      entry |-> IF again THEN bw.entry ELSE nodes,
      run |-> IF again THEN bw.run + 1 ELSE 1]

Backward(root) ==
  /\ Ready
  /\ nbw < MaxBackward
  /\ bw' = BackwardCall(root)
  /\ nbw' = nbw + 1
  /\ lastOp' = [name |-> "backward", a |-> root, b |-> 0]
  /\ UNCHANGED <<nodes, status, train>>

\* the node the next iteration of backward's loop dispatches
Current == IterRev(bw.topo)[bw.done + 1]

\* one iteration of backward's loop; backward() returns after the last one
BackwardStep ==
  /\ status = "running"
  /\ bw.active
  /\ LET r == Dispatch(nodes, Current)
     IN /\ nodes' = r.nodes
        /\ status' = IF r.ok THEN "running" ELSE "panicked"
        /\ bw' = [bw EXCEPT !.done = @ + 1,
                            !.active = r.ok /\ bw.done + 1 < Len(bw.topo)]
  /\ UNCHANGED <<nbw, lastOp, train>>

(***************************************************************************)
(* The engine under an arbitrary client: any operation on any handle, in   *)
(* any order. set_value is called on leaves (the parameters), with a       *)
(* tensor of the node's shape; set_grad with a tensor of the node's shape. *)
(***************************************************************************)
\* the shapes of the leaves a client creates
Shapes == {<<1, 1>>, <<1, 2>>, <<2, 1>>}

\* the elements of the leaves and of set_value's arguments, in whole units
LeafVals == {-1, 2}

\* the elements of set_grad's arguments, in whole units
SeedVals == {1}

Leaves == {h \in Handles : nodes[h].op = "None"}

Init ==
  /\ nodes = <<>>
  /\ status = "running"
  /\ bw = BwIdle
  /\ nbw = 0
  /\ lastOp = NoCall
  /\ train = TrainIdle

Next ==
  \/ \E sh \in Shapes, v \in LeafVals :
       Len(nodes) < MaxNodes /\ New(FromElem(sh[1], sh[2], v * Unit))
  \/ \E a, b \in Handles : Len(nodes) < MaxNodes /\ Add(a, b)
  \/ \E a, b \in Handles : Len(nodes) < MaxNodes /\ Mul(a, b)
  \/ \E a \in Handles : Len(nodes) < MaxNodes /\ Tanh(a)
  \/ \E a \in Handles : Len(nodes) < MaxNodes /\ Relu(a)
  \/ \E n \in Handles : ZeroGrad(n)
  \/ \E n \in Leaves, v \in LeafVals :
       SetValue(n, FromElem(nodes[n].value.rows, nodes[n].value.cols, v * Unit))
  \/ \E n \in Handles, g \in SeedVals :
       SetGrad(n, FromElem(nodes[n].grad.rows, nodes[n].grad.cols, g * Unit))
  \/ \E root \in Handles : Backward(root)
  \/ BackwardStep

Spec == Init /\ [][Next]_vars

(***************************************************************************)
(* The engine under a client that builds a graph of scalars, seeds the     *)
(* grad of its output (the node built last) and calls backward() on it     *)
(* once: the use the engine is made for. A node's children are built       *)
(* before it, so what backward() does from a root depends on the nodes     *)
(* built up to the root only: every graph with every root is a graph of    *)
(* this client at the moment the root was its last node.                   *)
(***************************************************************************)
\* the most nodes of a graph
MaxGraphNodes == 4

\* the values of the leaves, in whole units
GraphLeafVals == {0}

\* the seeds, in whole units
GraphSeeds == {1, 2}

Scalar(v) == FromElem(1, 1, v * Unit)

Building == lastOp.name \in {"none", "new", "add", "mul", "tanh", "relu"}

NextGraph ==
  \/ \E v \in GraphLeafVals :
       Building /\ Len(nodes) < MaxGraphNodes /\ New(Scalar(v))
  \/ \E a, b \in Handles : Building /\ Len(nodes) < MaxGraphNodes /\ Add(a, b)
  \/ \E a, b \in Handles : Building /\ Len(nodes) < MaxGraphNodes /\ Mul(a, b)
  \/ \E a \in Handles : Building /\ Len(nodes) < MaxGraphNodes /\ Tanh(a)
  \/ \E a \in Handles : Building /\ Len(nodes) < MaxGraphNodes /\ Relu(a)
  \/ \E g \in GraphSeeds :
       Building /\ Len(nodes) > 0 /\ SetGrad(Len(nodes), Scalar(g))
  \/ lastOp.name = "set_grad" /\ Backward(lastOp.a)
  \/ BackwardStep

SpecGraph == Init /\ [][NextGraph]_vars


(***************************************************************************)
(* The engine under a client that makes up to MaxLeaves scalar leaves,     *)
(* applies one operation to them, seeds the result's grad and calls        *)
(* backward() on it: the gradient rules one at a time, over a range of     *)
(* values.                                                                 *)
(***************************************************************************)
\* the most leaves
MaxLeaves == 2

\* the leaves hold whole numbers of magnitude up to MaxVal, or +-TanhSat
MaxVal == 3

\* the seeds are 1..MaxSeed
MaxSeed == 2

RuleVals == (-MaxVal..MaxVal) \cup {-TanhSat, TanhSat}

NextRule ==
  \/ \E v \in RuleVals :
       lastOp.name \in {"none", "new"} /\ Len(nodes) < MaxLeaves /\ New(Scalar(v))
  \/ \E a, b \in Handles : lastOp.name = "new" /\ Add(a, b)
  \/ \E a, b \in Handles : lastOp.name = "new" /\ Mul(a, b)
  \/ \E a \in Handles : lastOp.name = "new" /\ Tanh(a)
  \/ \E a \in Handles : lastOp.name = "new" /\ Relu(a)
  \/ \E g \in 1..MaxSeed :
       lastOp.name \in {"add", "mul", "tanh", "relu"} /\ SetGrad(Len(nodes), Scalar(g))
  \/ lastOp.name = "set_grad" /\ Backward(lastOp.a)
  \/ BackwardStep

SpecRule == Init /\ [][NextRule]_vars

(***************************************************************************)
(* src/src/mlp.rs: neurons, layers and the MLP. A neuron is the handles of *)
(* its weights and of its bias; the parameters are created once, by        *)
(* MLP::new, and every call builds new nodes on top of them.               *)
(***************************************************************************)
Min(x, y) == IF x <= y THEN x ELSE y

\* Neuron::parameters: the weights, then the bias
NeuronParameters(neuron) == Append(neuron.weights, neuron.bias)

RECURSIVE Flatten(_, _)
Flatten(seqs, k) == IF k = 0 THEN <<>> ELSE Flatten(seqs, k - 1) \o seqs[k]

LayerParameters(layer) ==
  Flatten([j \in 1..Len(layer.neurons) |-> NeuronParameters(layer.neurons[j])],
          Len(layer.neurons))

MLPParameters(mlp) ==
  Flatten([i \in 1..Len(mlp.layers) |-> LayerParameters(mlp.layers[i])], Len(mlp.layers))

RECURSIVE ZeroGradEach(_, _, _)
ZeroGradEach(ns, params, k) ==
  IF k = 0 THEN ns
  ELSE [ZeroGradEach(ns, params, k - 1) EXCEPT ![params[k]] = ZeroGradNode(@)]

\* MLP::zero_grad, had parameters() left out the biases
MLPZeroGradWeightsOnly(ns, mlp) ==
  LET weights == Flatten([i \in 1..Len(mlp.layers) |->
                            Flatten([j \in 1..Len(mlp.layers[i].neurons) |->
                                       mlp.layers[i].neurons[j].weights],
                                    Len(mlp.layers[i].neurons))],
                         Len(mlp.layers))
  IN ZeroGradEach(ns, weights, Len(weights))

\* MLP::zero_grad: zero_grad() on every parameter
MLPZeroGrad(ns, mlp) == ZeroGradEach(ns, MLPParameters(mlp), Len(MLPParameters(mlp)))

RECURSIVE ParamsBefore(_, _)
\* the number of parameters of the layers before layer i, sizes being nin
\* followed by nouts
ParamsBefore(sizes, i) ==
  IF i = 1 THEN 0 ELSE ParamsBefore(sizes, i - 1) + sizes[i] * (sizes[i - 1] + 1)

\* MLP::new(nin, nouts), the parameters being the nodes 1, 2, ... in the order
\* Neuron::new creates them: ReLU on every layer but the last
MLPNew(nin, nouts) ==
  LET sizes == <<nin>> \o nouts
      neuron(i, j) ==
        LET base == ParamsBefore(sizes, i) + (j - 1) * (sizes[i] + 1)
        IN [weights |-> [k \in 1..sizes[i] |-> base + k], bias |-> base + sizes[i] + 1]
  IN [layers |->
        [i \in 1..Len(nouts) |->
           [neurons |-> [j \in 1..sizes[i + 1] |-> neuron(i, j)],
            activation |-> IF i < Len(nouts) THEN "ReLU" ELSE "None"]]]

(***************************************************************************)
(* src/src/main.rs: the training loop and the loop that prints the         *)
(* predictions. train.pc is the statement main is at and the other fields  *)
(* of train are the locals of main and of the mlp.call in progress.        *)
(* total_loss is dropped at the end of each iteration of the training      *)
(* loop, and with it every node of the epoch's graph (the parameters are   *)
(* owned by the MLP). The rng of Neuron::new is a choice among NInits      *)
(* weight vectors.                                                         *)
(***************************************************************************)
\* MLP::new(2, &[4, 1])
NIn == 2
NHidden == 4
NOut == 1

\* epochs
Epochs == 500

\* the most epochs the model runs
MaxEpochs == 2

\* the number of initial weight vectors
NInits == 2

TheMLP == MLPNew(NIn, <<NHidden, NOut>>)

Params == MLPParameters(TheMLP)

\* inputs and targets, in whole units
Inputs == <<<<0, 0>>, <<0, 1>>, <<1, 0>>, <<1, 1>>>>
Targets == <<0, 1, 1, 0>>

\* learning_rate on the grid
LearningRate == Unit \div LrDen

\* rng.gen_range(-scale..scale) with scale = sqrt(2 / nin): a value of the grid
\* strictly inside the range, picked by the parameter's index and the init
WeightOf(k, nin, init) ==
  LET bound == IF nin = 2 THEN 99 ELSE 70
  IN ((k * 37 + init * 53) % (2 * bound + 1)) - bound

InitialParams(init) ==
  LET sizes == <<NIn, NHidden, NOut>>
      layerNodes(i) ==
        Flatten([j \in 1..sizes[i + 1] |->
                   [k \in 1..(sizes[i] + 1) |->
                      IF k <= sizes[i]
                      THEN AutogradNew(FromElem(1, 1,
                             WeightOf(ParamsBefore(sizes, i) + (j - 1) * (sizes[i] + 1) + k,
                                      sizes[i], init)))
                      ELSE AutogradNew(FromElem(1, 1, 0))]],
                sizes[i + 1])
  IN layerNodes(1) \o layerNodes(2)

InitTrain ==
  /\ \E init \in 1..NInits : nodes = InitialParams(init)
  /\ status = "running"
  /\ bw = BwIdle
  /\ nbw = 0
  /\ lastOp = NoCall
  /\ train = [pc |-> "epoch", epoch |-> 1, i |-> 1, total_loss |-> 0,
              current |-> <<>>, outs |-> <<>>, layer |-> 0, neuron |-> 0, k |-> 0,
              sum |-> 0, ret |-> "none", target |-> 0, diff |-> 0, loss |-> 0]

\* let mut total_loss = Autograd::new(Array2::zeros((1, 1)))
NewTotalLoss ==
  /\ train.pc = "epoch"
  /\ train.epoch <= Min(Epochs, MaxEpochs)
  /\ nodes' = Append(nodes, AutogradNew(Zeros(1, 1)))
  /\ train' = [train EXCEPT !.pc = "inputs", !.i = 1, !.total_loss = Len(nodes) + 1]
  /\ lastOp' = [name |-> "new", a |-> Len(nodes) + 1, b |-> 0]
  /\ UNCHANGED <<status, bw, nbw>>

\* Neuron::call begins: let mut sum = self.bias.clone()
EnterNeuron(t, layer, neuron) ==
  [t EXCEPT !.pc = "neuron", !.layer = layer, !.neuron = neuron, !.k = 1,
            !.sum = TheMLP.layers[layer].neurons[neuron].bias]

\* let x = x_data.iter().map(Autograd::new).collect(), and mlp.call(&x) begins:
\* current = x.to_vec(), first neuron of the first layer
CallMLP(x_data, ret) ==
  /\ nodes' = nodes \o [k \in 1..Len(x_data) |-> AutogradNew(Scalar(x_data[k]))]
  /\ train' = EnterNeuron([train EXCEPT !.current = [k \in 1..Len(x_data) |-> Len(nodes) + k],
                                        !.outs = <<>>, !.ret = ret], 1, 1)
  /\ lastOp' = [name |-> "new", a |-> Len(nodes) + Len(x_data), b |-> 0]
  /\ UNCHANGED <<status, bw, nbw>>

\* the training loop's forward pass of sample i
SampleInputs ==
  /\ train.pc = "inputs"
  /\ CallMLP(Inputs[train.i], "target")

\* one iteration of the loop of Neuron::call: sum = sum.add(&w.mul(xi))
NeuronTerm ==
  /\ train.pc = "neuron"
  /\ LET neuron == TheMLP.layers[train.layer].neurons[train.neuron]
         withMul == Append(nodes, MulNode(nodes, neuron.weights[train.k],
                                          train.current[train.k]))
     IN /\ train.k <= Min(Len(neuron.weights), Len(train.current))
        /\ nodes' = Append(withMul, AddNode(withMul, train.sum, Len(withMul)))
        /\ train' = [train EXCEPT !.sum = Len(nodes) + 2, !.k = @ + 1]
        /\ lastOp' = [name |-> "add", a |-> train.sum, b |-> Len(nodes) + 1]
  /\ UNCHANGED <<status, bw, nbw>>

\* the end of Neuron::call: the activation. Layer::call goes on with the next
\* neuron on the same inputs; after the last one MLP::call goes on with the next
\* layer on this layer's outputs, and after the last layer it returns them
NeuronAct ==
  /\ train.pc = "neuron"
  /\ LET layer == TheMLP.layers[train.layer]
         neuron == layer.neurons[train.neuron]
         out == IF layer.activation = "None" THEN train.sum ELSE Len(nodes) + 1
         outs == Append(train.outs, out)
     IN /\ train.k > Min(Len(neuron.weights), Len(train.current))
        /\ nodes' = CASE layer.activation = "ReLU" -> Append(nodes, ReluNode(nodes, train.sum))
                      [] layer.activation = "Tanh" -> Append(nodes, TanhNode(nodes, train.sum))
                      [] OTHER -> nodes
        /\ train' = IF train.neuron < Len(layer.neurons)
                    THEN EnterNeuron([train EXCEPT !.outs = outs],
                                     train.layer, train.neuron + 1)
                    ELSE IF train.layer < Len(TheMLP.layers)
                    THEN EnterNeuron([train EXCEPT !.current = outs, !.outs = <<>>],
                                     train.layer + 1, 1)
                    ELSE [train EXCEPT !.current = outs, !.outs = <<>>, !.pc = train.ret]
        /\ lastOp' = IF layer.activation = "None" THEN lastOp
                     ELSE [name |-> IF layer.activation = "ReLU" THEN "relu" ELSE "tanh",
                           a |-> train.sum, b |-> 0]
  /\ UNCHANGED <<status, bw, nbw>>

\* let target = Autograd::new(Array2::from_elem((1, 1), y_target))
SampleTarget ==
  /\ train.pc = "target"
  /\ nodes' = Append(nodes, AutogradNew(Scalar(Targets[train.i])))
  /\ train' = [train EXCEPT !.pc = "diff", !.target = Len(nodes) + 1]
  /\ lastOp' = [name |-> "new", a |-> Len(nodes) + 1, b |-> 0]
  /\ UNCHANGED <<status, bw, nbw>>

\* let diff = pred.add(&Autograd::new(-target.value())), pred being outputs[0]
SampleDiff ==
  /\ train.pc = "diff"
  /\ LET withNeg == Append(nodes, AutogradNew(Neg(nodes[train.target].value)))
     IN nodes' = Append(withNeg, AddNode(withNeg, train.current[1], Len(withNeg)))
  /\ train' = [train EXCEPT !.pc = "loss", !.diff = Len(nodes) + 2]
  /\ lastOp' = [name |-> "add", a |-> train.current[1], b |-> Len(nodes) + 1]
  /\ UNCHANGED <<status, bw, nbw>>

\* let loss = diff.mul(&diff)
SampleLoss ==
  /\ train.pc = "loss"
  /\ nodes' = Append(nodes, MulNode(nodes, train.diff, train.diff))
  /\ train' = [train EXCEPT !.pc = "total", !.loss = Len(nodes) + 1]
  /\ lastOp' = [name |-> "mul", a |-> train.diff, b |-> train.diff]
  /\ UNCHANGED <<status, bw, nbw>>

\* total_loss = total_loss.add(&loss), and the next sample if there is one
SampleTotal ==
  /\ train.pc = "total"
  /\ nodes' = Append(nodes, AddNode(nodes, train.total_loss, train.loss))
  /\ train' = [train EXCEPT !.total_loss = Len(nodes) + 1,
                            !.i = @ + 1,
                            !.pc = IF train.i < Min(Len(Inputs), Len(Targets))
                                   THEN "inputs" ELSE "zero_grad"]
  /\ lastOp' = [name |-> "add", a |-> train.total_loss, b |-> train.loss]
  /\ UNCHANGED <<status, bw, nbw>>

\* mlp.zero_grad()
TrainZeroGrad ==
  /\ train.pc = "zero_grad"
  /\ nodes' = MLPZeroGrad(nodes, TheMLP)
  /\ train' = [train EXCEPT !.pc = "seed"]
  /\ lastOp' = [name |-> "zero_grad", a |-> Params[Len(Params)], b |-> 0]
  /\ UNCHANGED <<status, bw, nbw>>

\* total_loss.set_grad(Array2::from_elem((1, 1), 1.0))
TrainSeed ==
  /\ train.pc = "seed"
  /\ nodes' = [nodes EXCEPT ![train.total_loss].grad = FromElem(1, 1, Unit)]
  /\ train' = [train EXCEPT !.pc = "backward"]
  /\ lastOp' = [name |-> "set_grad", a |-> train.total_loss, b |-> 0]
  /\ UNCHANGED <<status, bw, nbw>>

\* total_loss.backward(): the call; BackwardStep runs its loop
TrainBackward ==
  /\ train.pc = "backward"
  /\ bw' = BackwardCall(train.total_loss)
  /\ nbw' = nbw + 1
  /\ train' = [train EXCEPT !.pc = "update"]
  /\ lastOp' = [name |-> "backward", a |-> train.total_loss, b |-> 0]
  /\ UNCHANGED <<nodes, status>>

\* p.set_value(p.value() - p.grad() * learning_rate)
SgdNode(data) ==
  [data EXCEPT !.value = TAdd(@, Neg(Mapv(data.grad, LAMBDA g : QMul(g, LearningRate))))]

RECURSIVE SgdEach(_, _, _)
\* the loop over mlp.parameters()
SgdEach(ns, params, k) ==
  IF k = 0 THEN ns
  ELSE [SgdEach(ns, params, k - 1) EXCEPT ![params[k]] = SgdNode(@)]

\* the SGD update of every parameter, once backward() has returned
TrainUpdate ==
  /\ train.pc = "update"
  /\ Ready
  /\ nodes' = SgdEach(nodes, Params, Len(Params))
  /\ train' = [train EXCEPT !.pc = "end"]
  /\ lastOp' = [name |-> "set_value", a |-> Params[Len(Params)], b |-> 0]
  /\ UNCHANGED <<status, bw, nbw>>

\* the end of the iteration: total_loss goes out of scope
EndEpoch ==
  /\ train.pc = "end"
  /\ nodes' = SubSeq(nodes, 1, Len(Params))
  /\ train' = [train EXCEPT !.pc = IF train.epoch < Min(Epochs, MaxEpochs)
                                   THEN "epoch" ELSE "test",
                            !.epoch = @ + 1, !.i = 1, !.total_loss = 0]
  /\ bw' = BwIdle
  /\ lastOp' = NoCall
  /\ UNCHANGED <<status, nbw>>

\* the loop that prints the predictions: the forward pass of input i
TestInputs ==
  /\ train.pc = "test"
  /\ train.i <= Len(Inputs)
  /\ CallMLP(Inputs[train.i], "print")

\* println!(outputs[0].value()), and x and outputs go out of scope
TestPrint ==
  /\ train.pc = "print"
  /\ nodes' = SubSeq(nodes, 1, Len(Params))
  /\ train' = [train EXCEPT !.pc = "test", !.i = @ + 1]
  /\ lastOp' = NoCall
  /\ UNCHANGED <<status, bw, nbw>>

NextTrain ==
  \/ NewTotalLoss
  \/ SampleInputs
  \/ NeuronTerm
  \/ NeuronAct
  \/ SampleTarget
  \/ SampleDiff
  \/ SampleLoss
  \/ SampleTotal
  \/ TrainZeroGrad
  \/ TrainSeed
  \/ TrainBackward
  \/ BackwardStep
  \/ TrainUpdate
  \/ EndEpoch
  \/ TestInputs
  \/ TestPrint

SpecTrain == InitTrain /\ [][NextTrain]_vars

(***************************************************************************)
(* Graph notions the properties are stated with.                           *)
(***************************************************************************)
Range(seq) == {seq[k] : k \in 1..Len(seq)}

ChildSet(ns, n) == Range(ns[n].children)

RECURSIVE ReachFrom(_, _)
ReachFrom(ns, set) ==
  LET more == set \cup UNION {ChildSet(ns, n) : n \in set}
  IN IF more = set THEN set ELSE ReachFrom(ns, more)

\* the nodes reachable from root via children edges
Reach(ns, root) == ReachFrom(ns, {root})

\* the number of distinct edge paths from node `from` down to node `to`
RECURSIVE Paths(_, _, _)
RECURSIVE PathsVia(_, _, _, _)
Paths(ns, from, to) ==
  IF from = to THEN 1 ELSE PathsVia(ns, ns[from].children, Len(ns[from].children), to)

PathsVia(ns, children, k, to) ==
  IF k = 0 THEN 0 ELSE PathsVia(ns, children, k - 1, to) + Paths(ns, children[k], to)

Positions(seq, x) == {k \in 1..Len(seq) : seq[k] = x}

\* the nodes backward's loop has dispatched so far
Dispatched == {IterRev(bw.topo)[k] : k \in 1..bw.done}

\* the nodes of the traversal that have n as a child
Parents(n) == {p \in Range(bw.topo) : n \in ChildSet(nodes, p)}

\* t scaled by the integer k
Times(t, k) == Mapv(t, LAMBDA x : x * k)

(***************************************************************************)
(* C1: the sequence build_topo builds from a root holds every node         *)
(* reachable from the root exactly once (and no other), every node after   *)
(* all of its children, and the root last. It holds of build_topo from     *)
(* every node of every graph (looked at while the graph is built: no later *)
(* operation changes a node's children), and of the order backward() works *)
(* on.                                                                     *)
(***************************************************************************)
TopoOK(ns, root, topo) ==
  /\ \A n \in Reach(ns, root) : Cardinality(Positions(topo, n)) = 1
  /\ Range(topo) \subseteq Reach(ns, root)
  /\ \A k \in 1..Len(topo) :
       \A c \in ChildSet(ns, topo[k]) : \E j \in 1..(k - 1) : topo[j] = c
  /\ Len(topo) > 0 /\ topo[Len(topo)] = root

C1_TopoOrder ==
  /\ Building => \A root \in Handles : TopoOK(nodes, root, BuildTopo(nodes, root))
  /\ bw.topo # <<>> => TopoOK(nodes, bw.root, bw.topo)

\* the diamond: d = add(b, c) whose operands both depend on a
C1_Witness ==
  /\ Len(nodes) = 4
  /\ nodes[1].children = <<>>
  /\ nodes[2].children = <<1>>
  /\ nodes[3].children = <<1>>
  /\ nodes[4].children = <<2, 3>>
  /\ bw.root = 4
  /\ bw.topo = <<1, 2, 3, 4>>

(***************************************************************************)
(* C2: backward() dispatches in reverse topological order: when a node is  *)
(* dispatched, every node of the traversal that has it as a child has been *)
(* dispatched before, and no step adds to the grad of a node that has been *)
(* dispatched already.                                                     *)
(***************************************************************************)
C2_ParentsFirst == bw.active => Parents(Current) \subseteq Dispatched

C2_NoLateContribution ==
  bw.active => \A n \in Dispatched \cup {Current} : nodes'[n].grad = nodes[n].grad

C2_ReverseOrder == []C2_ParentsFirst /\ [][C2_NoLateContribution]_vars

\* a node with two parents is about to be dispatched, both have contributed
C2_Witness ==
  /\ bw.active
  /\ Cardinality(Parents(Current)) >= 2
  /\ Parents(Current) \subseteq Dispatched
  /\ ~IsZero(nodes[Current].grad)

(***************************************************************************)
(* C3: gradient fan-out is additive. When backward() has run once from a   *)
(* root whose graph holds only Add nodes and leaves, all grads but the     *)
(* root's being zero at the call, the grad of each node of the graph is    *)
(* the root's grad times the number of distinct edge paths from the root   *)
(* to the node.                                                            *)
(***************************************************************************)
AddGraph(ns, root) == \A n \in Reach(ns, root) : ns[n].op \in {"Add", "None"}

C3_AdditiveFanOut ==
  (/\ Returned
   /\ bw.run = 1
   /\ AddGraph(bw.entry, bw.root)
   /\ \A n \in Reach(bw.entry, bw.root) \ {bw.root} : IsZero(bw.entry[n].grad))
  => \A n \in Reach(nodes, bw.root) :
       nodes[n].grad = Times(bw.entry[bw.root].grad, Paths(nodes, bw.root, n))

\* s = a.add(&a), seeded with 1: a.grad is 2
C3_Witness ==
  /\ Returned
  /\ bw.root = 2
  /\ nodes[2].op = "Add"
  /\ nodes[2].children = <<1, 1>>
  /\ nodes[2].grad = Scalar(1)
  /\ nodes[1].grad = Scalar(2)


(***************************************************************************)
(* C4: add() on operands of different shapes fails at the call, so no Add  *)
(* node exists whose value has another shape than one of its children.     *)
(***************************************************************************)
C4_AddShapesMatch ==
  /\ (lastOp.name = "add" /\ Shape(nodes[lastOp.a].value) # Shape(nodes[lastOp.b].value))
       => status = "panicked"
  /\ \A n \in Handles :
       nodes[n].op = "Add" =>
         \A k \in 1..2 : Shape(nodes[nodes[n].children[k]].value) = Shape(nodes[n].value)

(***************************************************************************)
(* C7: zero_grad() on a node sets its grad to the all-zero tensor of its   *)
(* value's shape and changes nothing else: not the node's value, children  *)
(* or op, and no other node.                                               *)
(***************************************************************************)
C7_ZeroGradStep ==
  (lastOp'.name = "zero_grad" /\ lastOp'.a \in Handles /\ vars' # vars) =>
    LET n == lastOp'.a
    IN /\ Len(nodes') = Len(nodes)
       /\ IsZero(nodes'[n].grad)
       /\ Shape(nodes'[n].grad) = Shape(nodes[n].value)
       /\ nodes'[n].value = nodes[n].value
       /\ nodes'[n].children = nodes[n].children
       /\ nodes'[n].op = nodes[n].op
       /\ \A m \in Handles \ {n} : nodes'[m] = nodes[m]

C7_ZeroGradFrame == [][C7_ZeroGradStep]_vars

\* zero_grad() after a backward pass, on a node of a shape other than 1x1 with a
\* non-zero value, while another node keeps a grad that is not zero
C7_Witness ==
  /\ lastOp.name = "zero_grad"
  /\ nbw > 0
  /\ IsZero(nodes[lastOp.a].grad)
  /\ ~IsZero(nodes[lastOp.a].value)
  /\ Shape(nodes[lastOp.a].value) # <<1, 1>>
  /\ nodes[lastOp.a].children # <<>>
  /\ \E m \in Handles : ~IsZero(nodes[m].grad)

(***************************************************************************)
(* C8: the grad of every node has the shape of its value, in every state.  *)
(***************************************************************************)
C8_GradShape == \A n \in Handles : Shape(nodes[n].grad) = Shape(nodes[n].value)

\* backward() through c = a.mul(&b), a of shape 1x2 and b of shape 2x1
C8_Witness ==
  /\ Returned
  /\ Len(nodes) = 3
  /\ bw.root = 3
  /\ nodes[3].op = "Mul"
  /\ nodes[3].children = <<1, 2>>
  /\ Shape(nodes[1].value) = <<1, 2>>
  /\ Shape(nodes[2].value) = <<2, 1>>
  /\ Shape(nodes[1].grad) = <<1, 2>> /\ ~IsZero(nodes[1].grad)
  /\ Shape(nodes[2].grad) = <<2, 1>> /\ ~IsZero(nodes[2].grad)

(***************************************************************************)
(* C9: only zero_grad() and set_grad() reset a grad. A step of backward()  *)
(* changes no value, children or op and not the root's grad, and adds to   *)
(* each grad the contribution of the dispatched node along each of its     *)
(* edges to that node; so grads persist from one backward() to the next:   *)
(* after two calls in a row on the root of a chain leaf <- mid <- root of  *)
(* ReLU nodes with positive values, root.grad being 1 and the other grads  *)
(* 0 at the first, mid.grad is 2 and leaf.grad is 3.                       *)
(***************************************************************************)
\* the rule of section 4.3 for the edge from p to its k-th child
EdgeContribution(ns, p, k) ==
  LET y == ns[p]
  IN CASE y.op = "Add" -> y.grad
       [] y.op = "Mul" /\ k = 1 -> Dot(y.grad, Transpose(ns[y.children[2]].value))
       [] y.op = "Mul" /\ k = 2 -> Dot(Transpose(ns[y.children[1]].value), y.grad)
       [] y.op = "Tanh" -> TMul(Mapv(y.value, LAMBDA x : Unit - QMul(x, x)), y.grad)
       [] y.op = "ReLU" -> TMul(Mapv(y.value, LAMBDA x : IF x > 0 THEN Unit ELSE 0), y.grad)

RECURSIVE Accumulated(_, _, _, _)
\* the grad of node c after the first k edges of p have contributed
Accumulated(ns, p, c, k) ==
  IF k = 0 THEN ns[c].grad
  ELSE IF ns[p].children[k] = c
       THEN AddAssign(Accumulated(ns, p, c, k - 1), EdgeContribution(ns, p, k))
       ELSE Accumulated(ns, p, c, k - 1)

C9_Frame ==
  /\ Len(nodes') >= Len(nodes)
  /\ \A n \in Handles :
       nodes'[n].grad # nodes[n].grad =>
         \/ lastOp'.name \in {"zero_grad", "set_grad"} /\ lastOp'.a = n
         \/ bw.active

C9_BackwardStep ==
  (bw.active \/ bw'.active) =>
    /\ Len(nodes') = Len(nodes)
    /\ \A n \in Handles :
         /\ nodes'[n].value = nodes[n].value
         /\ nodes'[n].children = nodes[n].children
         /\ nodes'[n].op = nodes[n].op
    /\ nodes'[bw'.root].grad = nodes[bw'.root].grad
    /\ ~bw.active => nodes' = nodes
    /\ (bw.active /\ status' = "running") =>
         \A n \in Handles :
           nodes'[n].grad = Accumulated(nodes, Current, n, Len(nodes[Current].children))

Positive(t) == \A k \in 1..(t.rows * t.cols) : t.data[k] > 0

Ones(t) == FromElem(t.rows, t.cols, Unit)

C9_TwoCalls ==
  \A leaf, mid \in Handles :
    (/\ Returned
     /\ bw.run = 2
     /\ bw.entry[bw.root].op = "ReLU" /\ bw.entry[bw.root].children = <<mid>>
     /\ bw.entry[mid].op = "ReLU" /\ bw.entry[mid].children = <<leaf>>
     /\ bw.entry[leaf].op = "None"
     /\ Positive(bw.entry[mid].value) /\ Positive(bw.entry[bw.root].value)
     /\ bw.entry[bw.root].grad = Ones(bw.entry[bw.root].grad)
     /\ IsZero(bw.entry[mid].grad)
     /\ IsZero(bw.entry[leaf].grad))
    => /\ nodes[mid].grad = Times(Ones(nodes[mid].grad), 2)
       /\ nodes[leaf].grad = Times(Ones(nodes[leaf].grad), 3)
       /\ nodes[bw.root].grad = bw.entry[bw.root].grad

C9_GradPersists == [][C9_Frame /\ C9_BackwardStep]_vars /\ []C9_TwoCalls

C9_Witness ==
  /\ Returned
  /\ bw.run = 2
  /\ Len(nodes) = 3
  /\ bw.root = 3
  /\ nodes[3].op = "ReLU" /\ nodes[3].children = <<2>>
  /\ nodes[2].op = "ReLU" /\ nodes[2].children = <<1>>
  /\ nodes[3].grad = FromElem(1, 1, Unit)
  /\ nodes[2].grad = FromElem(1, 1, 2 * Unit)
  /\ nodes[1].grad = FromElem(1, 1, 3 * Unit)


(***************************************************************************)
(* C5: the MatMul rule on 1x1 tensors. For distinct leaves a and b with    *)
(* zero grads and whole values va and vb, c = a.mul(&b) has the value      *)
(* va * vb, and backward() from c seeded with g leaves a.grad = g * vb and *)
(* b.grad = va * g.                                                        *)
(***************************************************************************)
IsWhole(t) == \A k \in 1..(t.rows * t.cols) : t.data[k] % Unit = 0

\* the whole number a 1x1 tensor holds
Whole(t) == t.data[1] \div Unit

C5_MulRule ==
  \A a, b \in Handles :
    (/\ Returned
     /\ bw.run = 1
     /\ a # b
     /\ nodes[bw.root].op = "Mul" /\ nodes[bw.root].children = <<a, b>>
     /\ nodes[a].op = "None" /\ nodes[b].op = "None"
     /\ Shape(nodes[a].value) = <<1, 1>> /\ Shape(nodes[b].value) = <<1, 1>>
     /\ IsWhole(nodes[a].value) /\ IsWhole(nodes[b].value)
     /\ IsWhole(bw.entry[bw.root].grad)
     /\ IsZero(bw.entry[a].grad) /\ IsZero(bw.entry[b].grad))
    => LET va == Whole(nodes[a].value)
           vb == Whole(nodes[b].value)
           g == Whole(bw.entry[bw.root].grad)
       IN /\ nodes[bw.root].value = Scalar(va * vb)
          /\ nodes[a].grad = Scalar(g * vb)
          /\ nodes[b].grad = Scalar(va * g)

\* a = 2, b = 3, g = 1: a.grad is 3 and b.grad is 2
C5_Witness ==
  /\ Returned
  /\ Len(nodes) = 3
  /\ nodes[1].value = Scalar(2)
  /\ nodes[2].value = Scalar(3)
  /\ nodes[3].op = "Mul" /\ nodes[3].children = <<1, 2>>
  /\ nodes[3].value = Scalar(6)
  /\ bw.entry[3].grad = Scalar(1)
  /\ nodes[1].grad = Scalar(3)
  /\ nodes[2].grad = Scalar(2)

(***************************************************************************)
(* C6: the ReLU rule. For a leaf x with zero grad, y = x.relu() has the    *)
(* value max(0, x) elementwise, and backward() from y seeded with g leaves *)
(* in each element of x.grad the element of g where y's value is positive  *)
(* and 0 elsewhere.                                                        *)
(***************************************************************************)
C6_ReluRule ==
  \A x \in Handles :
    (/\ Returned
     /\ bw.run = 1
     /\ nodes[bw.root].op = "ReLU" /\ nodes[bw.root].children = <<x>>
     /\ nodes[x].op = "None"
     /\ IsZero(bw.entry[x].grad))
    => LET y == nodes[bw.root]
           g == bw.entry[bw.root].grad
       IN /\ Shape(y.value) = Shape(nodes[x].value)
          /\ \A k \in 1..Len(y.value.data) :
               /\ y.value.data[k] = IF nodes[x].value.data[k] > 0
                                    THEN nodes[x].value.data[k] ELSE 0
               /\ nodes[x].grad.data[k] = IF y.value.data[k] > 0 THEN g.data[k] ELSE 0

\* x = -1, g = 1: y is 0 and x.grad stays 0
C6_Witness ==
  /\ Returned
  /\ Len(nodes) = 2
  /\ nodes[1].value = Scalar(-1)
  /\ nodes[2].op = "ReLU" /\ nodes[2].children = <<1>>
  /\ nodes[2].value = Scalar(0)
  /\ nodes[2].grad = Scalar(1)
  /\ nodes[1].grad = Scalar(0)

(***************************************************************************)
(* C10: in the training loop gradients do not leak between epochs. At the  *)
(* moment total_loss.backward() is called, every node reachable from       *)
(* total_loss other than total_loss itself has an all-zero grad; and when  *)
(* the SGD update reads them, the grads of the parameters are the ones a   *)
(* single backward pass leaves on the present graph started from zero      *)
(* grads and the seed 1, whatever the epochs before have done.             *)
(***************************************************************************)
RECURSIVE RunBackward(_, _, _, _)
\* the arena after the iterations lo..hi of backward's loop over `order`, run on
\* the arena ns (the range is halved to keep the evaluation shallow)
RunBackward(ns, order, lo, hi) ==
  IF lo > hi THEN ns
  ELSE IF lo = hi THEN Dispatch(ns, order[lo]).nodes
  ELSE CHOOSE after \in {RunBackward(half, order, (lo + hi) \div 2 + 1, hi) :
                           half \in {RunBackward(ns, order, lo, (lo + hi) \div 2)}} : TRUE

\* the arena after one backward() from root seeded with 1, all grads zero before
FromScratch(ns, root) ==
  CHOOSE after \in {RunBackward(fresh, order, 1, Len(order)) :
                      fresh \in {[n \in 1..Len(ns) |->
                                    IF n = root THEN [ns[n] EXCEPT !.grad = Scalar(1)]
                                    ELSE ZeroGradNode(ns[n])]},
                      order \in {IterRev(BuildTopo(ns, root))}} : TRUE

C10_NoLeakAtBackward ==
  train.pc = "backward" =>
    \A n \in Reach(nodes, train.total_loss) \ {train.total_loss} : IsZero(nodes[n].grad)

C10_GradsOfThisEpoch ==
  (train.pc = "update" /\ Ready) =>
    \E scratch \in {FromScratch(nodes, train.total_loss)} :
      \A k \in 1..Len(Params) : nodes[Params[k]].grad = scratch[Params[k]].grad

C10_NoLeakBetweenEpochs == C10_NoLeakAtBackward /\ C10_GradsOfThisEpoch

\* the second epoch's backward() has returned, with a gradient on some parameter,
\* and the first epoch's pass had left one too
C10_Witness ==
  /\ train.pc = "update"
  /\ train.epoch = 2
  /\ Ready
  /\ nbw = 2
  /\ \E k \in 1..Len(Params) : ~IsZero(nodes[Params[k]].grad)

====
